---- MODULE Spec2Model ----
(***************************************************************************)
(* The second-price auction engine of lease-lock, as implemented by the    *)
(* reference class AuctionContract in                                      *)
(* src/client/scripts/test_auction_logic.py.                               *)
(*                                                                         *)
(* The program state is the four fields of AuctionContract (auctions,      *)
(* bids, next_id, events).  Three history variables record what the        *)
(* properties need and the program does not keep: the last call and its    *)
(* outcome, the sum of the amounts of the accepted bids of each auction,   *)
(* and the end time each auction was created with.                         *)
(*                                                                         *)
(* The lock daemon of src/lock/iot_lock_daemon.py, which consumes the      *)
(* event stream, is modelled beside it: locks is LockDaemon.locks and      *)
(* state_file the map in the file save_state writes, state_file_ok whether *)
(* the file decodes (it does not when a write was cut short after the file *)
(* was opened).  Its polling loop (LockDaemon.run) has the cursor it keeps *)
(* in memory, the cursor file (0 when absent or empty), the batch it is    *)
(* working on and its position in the loop; applied is a history variable, *)
(* the events of the stream it has applied so far.                         *)
(***************************************************************************)
EXTENDS Integers, Sequences, FiniteSets, TLC

VARIABLES auctions, bids, next_id, events, last, accepted, orig_end, locks, state_file, state_file_ok, cursor_file, cursor, pending, next_cursor, pc, applied

vars == <<auctions, bids, next_id, events, last, accepted, orig_end, locks, state_file, state_file_ok, cursor_file, cursor, pending, next_cursor, pc, applied>>

loop == <<cursor_file, cursor, pending, next_cursor, pc, applied>>

state == <<auctions, bids, next_id, events>>

(***************************************************************************)
(* Bounds of the model and the input sets of the callers.                  *)
(***************************************************************************)
MaxAuctions == 2
MaxEvents == 6
MaxEscrow == 3
MaxSnipeTotal == 12

Sellers == {"seller"}
Bidders == {"alice", "bob"}
LeaseIds == {7}
Units == {"unit"}
Tokens == {"token"}
Lessors == {"lessor"}
Lessees == {"lessee"}
\* The configurations offered to create: two that it accepts (one of them
\* with a negative extend_secs, which only the test for zero guards) and one
\* for each of its five validation errors.
Configs ==
    { [reserve |-> 2, min_increment |-> 1, start_ts |-> 1, end_ts |-> 3,
       extend_secs |-> 1, extend_window |-> 1],
      [reserve |-> 1, min_increment |-> 1, start_ts |-> 1, end_ts |-> 3,
       extend_secs |-> -1, extend_window |-> 1],
      [reserve |-> 1, min_increment |-> 1, start_ts |-> 3, end_ts |-> 3,
       extend_secs |-> 1, extend_window |-> 1],
      [reserve |-> 0, min_increment |-> 1, start_ts |-> 1, end_ts |-> 3,
       extend_secs |-> 1, extend_window |-> 1],
      [reserve |-> 1, min_increment |-> 0, start_ts |-> 1, end_ts |-> 3,
       extend_secs |-> 1, extend_window |-> 1],
      [reserve |-> 1, min_increment |-> 1, start_ts |-> 1, end_ts |-> 3,
       extend_secs |-> 1, extend_window |-> 0],
      [reserve |-> 1, min_increment |-> 1, start_ts |-> 1, end_ts |-> 3,
       extend_secs |-> 0, extend_window |-> 1] }
Amounts == {0, 1, 2}
Times == {0, 1, 3, 4}
AuctionIds == 1 .. MaxAuctions

(***************************************************************************)
(* Small arithmetic helpers.                                               *)
(***************************************************************************)
Max(a, b) == IF a >= b THEN a ELSE b

(***************************************************************************)
(* self.bids: a dict (auction_id, bidder) -> total.  A Python dict keeps   *)
(* insertion order and the refund loops iterate it, so it is a sequence of *)
(* entries in insertion order.                                             *)
(***************************************************************************)
HasBid(bs, auction_id, bidder) ==
    \E i \in 1 .. Len(bs) : bs[i].aid = auction_id /\ bs[i].bidder = bidder

get_bid(bs, auction_id, bidder) ==
    IF HasBid(bs, auction_id, bidder)
    THEN LET i == CHOOSE j \in 1 .. Len(bs) :
                      bs[j].aid = auction_id /\ bs[j].bidder = bidder
         IN bs[i].amount
    ELSE 0

SetBid(bs, auction_id, bidder, total) ==
    IF HasBid(bs, auction_id, bidder)
    THEN [i \in 1 .. Len(bs) |->
             IF bs[i].aid = auction_id /\ bs[i].bidder = bidder
             THEN [bs[i] EXCEPT !.amount = total]
             ELSE bs[i]]
    ELSE Append(bs, [aid |-> auction_id, bidder |-> bidder, amount |-> total])

\* every entry removed, whatever its auction
ClearBidsAll(bs, auction_id) == <<>>

RECURSIVE ClearBids(_, _)
ClearBids(bs, auction_id) ==
    IF bs = <<>> THEN <<>>
    ELSE IF Head(bs).aid # auction_id
         THEN <<Head(bs)>> \o ClearBids(Tail(bs), auction_id)
         ELSE ClearBids(Tail(bs), auction_id)

RECURSIVE RefundAll(_, _)
RefundAll(bs, auction_id) ==
    IF bs = <<>> THEN <<>>
    ELSE (IF Head(bs).amount > 0
          THEN << <<"Refund", auction_id, Head(bs).bidder, Head(bs).amount>> >>
          ELSE <<>>) \o RefundAll(Tail(bs), auction_id)

RECURSIVE RefundOthers(_, _, _)
RefundOthers(bs, auction_id, best_bidder) ==
    IF bs = <<>> THEN <<>>
    ELSE (IF Head(bs).bidder # best_bidder /\ Head(bs).amount > 0
          THEN << <<"Refund", auction_id, Head(bs).bidder, Head(bs).amount>> >>
          ELSE <<>>) \o RefundOthers(Tail(bs), auction_id, best_bidder)

(***************************************************************************)
(* The record of the last call: the operation, the message of the         *)
(* ValueError it raised ("" when it returned) and the value it returned.   *)
(***************************************************************************)
Call(op, err, ret) == [op |-> op, err |-> err, ret |-> ret]

Init ==
    /\ auctions = <<>>
    /\ bids = <<>>
    /\ next_id = 1
    /\ events = <<>>
    /\ last = Call("init", "", "")
    /\ accepted = <<>>
    /\ orig_end = <<>>
    /\ locks = <<>>
    /\ state_file = <<>>
    /\ state_file_ok = TRUE
    /\ cursor_file = 0
    /\ cursor = 0
    /\ pending = <<>>
    /\ next_cursor = 0
    /\ pc = "fetch"
    /\ applied = {}

(***************************************************************************)
(* create                                                                  *)
(***************************************************************************)
\* create testing the reserve before the times
CreateErrorReserveFirst(reserve, min_increment, start_ts, end_ts, extend_secs, extend_window) ==
    IF reserve <= 0 THEN "invalid-reserve"
    ELSE IF start_ts >= end_ts THEN "invalid-times"
    ELSE IF min_increment <= 0 THEN "invalid-increment"
    ELSE IF extend_window = 0 THEN "invalid-extend-window"
    ELSE IF extend_secs = 0 THEN "invalid-extend-secs"
    ELSE ""

CreateError(reserve, min_increment, start_ts, end_ts, extend_secs, extend_window) ==
    IF start_ts >= end_ts THEN "invalid-times"
    ELSE IF reserve <= 0 THEN "invalid-reserve"
    ELSE IF min_increment <= 0 THEN "invalid-increment"
    ELSE IF extend_window = 0 THEN "invalid-extend-window"
    ELSE IF extend_secs = 0 THEN "invalid-extend-secs"
    ELSE ""

max_extensions == 10

NewAuction(auction_id, lease_id, unit, seller, token, reserve, min_increment, start_ts, end_ts, extend_secs, extend_window) ==
    [id |-> auction_id, lease_id |-> lease_id, seller |-> seller,
     unit |-> unit, token |-> token, reserve |-> reserve,
     min_increment |-> min_increment, start_ts |-> start_ts,
     end_ts |-> end_ts, extend_secs |-> extend_secs,
     extend_window |-> extend_window, max_extensions |-> max_extensions,
     extensions_count |-> 0, best_bid |-> 0, best_bidder |-> seller,
     second_bid |-> 0, settled |-> FALSE]

Put(f, k, v) == [i \in DOMAIN f \cup {k} |-> IF i = k THEN v ELSE f[i]]

(***************************************************************************)
(* Each operation is a function of the state and its arguments: the        *)
(* ValueError it raises ("" when it returns), the value it returns and the *)
(* four fields of the contract as the call leaves them.                    *)
(***************************************************************************)
Outcome(err, ret, as, bs, nid, evs) ==
    [err |-> err, ret |-> ret, auctions |-> as, bids |-> bs, next_id |-> nid,
     events |-> evs]

Raise(err) == Outcome(err, "", auctions, bids, next_id, events)

Apply(op, r) ==
    /\ auctions' = r.auctions
    /\ bids' = r.bids
    /\ next_id' = r.next_id
    /\ events' = r.events
    /\ last' = Call(op, r.err, r.ret)
    /\ UNCHANGED <<locks, state_file, state_file_ok, loop>>

CreateResult(lease_id, unit, seller, token, reserve, min_increment, start_ts, end_ts, extend_secs, extend_window) ==
    LET err == CreateError(reserve, min_increment, start_ts, end_ts,
                           extend_secs, extend_window)
        auction_id == next_id
    IN IF err # "" THEN Raise(err)
       ELSE Outcome("", "id",
                    Put(auctions, auction_id,
                        NewAuction(auction_id, lease_id, unit, seller, token,
                                   reserve, min_increment, start_ts, end_ts,
                                   extend_secs, extend_window)),
                    bids,
                    next_id + 1,
                    Append(events, <<"AucCreate", auction_id, lease_id, seller,
                                     unit, reserve>>))

Create(lease_id, unit, seller, token, reserve, min_increment, start_ts, end_ts, extend_secs, extend_window) ==
    LET r == CreateResult(lease_id, unit, seller, token, reserve,
                          min_increment, start_ts, end_ts, extend_secs,
                          extend_window)
    IN /\ Apply("create", r)
       /\ IF r.err = ""
          THEN /\ accepted' = Put(accepted, next_id, 0)
               /\ orig_end' = Put(orig_end, next_id, end_ts)
          ELSE UNCHANGED <<accepted, orig_end>>

(***************************************************************************)
(* bid                                                                     *)
(***************************************************************************)
\* bid without the test of the settled flag
BidValidateNoSettled(auction_id, amount, current_time) ==
    IF amount <= 0 THEN "invalid-amount"
    ELSE IF auction_id \notin DOMAIN auctions THEN "auction-not-found"
    ELSE IF current_time < auctions[auction_id].start_ts THEN "auction-not-started"
    ELSE IF current_time > auctions[auction_id].end_ts THEN "auction-ended"
    ELSE ""

\* bid with a window that is open at its end
BidValidateExclusiveEnd(auction_id, amount, current_time) ==
    IF amount <= 0 THEN "invalid-amount"
    ELSE IF auction_id \notin DOMAIN auctions THEN "auction-not-found"
    ELSE IF auctions[auction_id].settled THEN "auction-settled"
    ELSE IF current_time < auctions[auction_id].start_ts THEN "auction-not-started"
    ELSE IF current_time >= auctions[auction_id].end_ts THEN "auction-ended"
    ELSE ""

BidValidate(auction_id, amount, current_time) ==
    IF amount <= 0 THEN "invalid-amount"
    ELSE IF auction_id \notin DOMAIN auctions THEN "auction-not-found"
    ELSE IF auctions[auction_id].settled THEN "auction-settled"
    ELSE IF current_time < auctions[auction_id].start_ts THEN "auction-not-started"
    ELSE IF current_time > auctions[auction_id].end_ts THEN "auction-ended"
    ELSE ""

\* bid without the increment requirement
BidRequirementNoIncrement(auction, new_total) ==
    IF new_total < auction.reserve THEN "below-reserve" ELSE ""

\* bid comparing with best_bid alone, min_increment forgotten
BidRequirementNoMin(auction, new_total) ==
    IF new_total < auction.reserve THEN "below-reserve"
    ELSE IF new_total < auction.best_bid THEN "insufficient-increment"
    ELSE ""

\* the requirement without the reserve
BidRequirementNoReserve(auction, new_total) ==
    IF new_total < auction.best_bid + auction.min_increment
    THEN "insufficient-increment"
    ELSE ""

BidRequirement(auction, new_total) ==
    IF new_total < auction.reserve THEN "below-reserve"
    ELSE IF new_total < auction.best_bid + auction.min_increment
         THEN "insufficient-increment"
    ELSE ""

\* the extension without its cap
ExtendsNoCap(auction, current_time) ==
    auction.end_ts - current_time <= auction.extend_window

\* the extension with a window that excludes its edge
ExtendsStrictWindow(auction, current_time) ==
    /\ auction.extensions_count < auction.max_extensions
    /\ auction.end_ts - current_time < auction.extend_window

Extends(auction, current_time) ==
    /\ auction.extensions_count < auction.max_extensions
    /\ auction.end_ts - current_time <= auction.extend_window

\* the commit that keeps second_bid when the leader raises their own bid
CommitKeepSecond(auction, bidder, new_total) ==
    [auction EXCEPT !.second_bid = IF auction.best_bidder = bidder
                                   THEN auction.second_bid
                                   ELSE auction.best_bid,
                    !.best_bid = new_total,
                    !.best_bidder = bidder]

\* The new leader is recorded: lines 125-127.
Commit(auction, bidder, new_total) ==
    [auction EXCEPT !.second_bid = auction.best_bid,
                    !.best_bid = new_total,
                    !.best_bidder = bidder]

\* the events of a bid with BidPlaced ahead of AucExtend
BidEventsPlacedFirst(auction_id, bidder, new_total, current_time, ext, end_ts) ==
    << <<"BidPlaced", auction_id, bidder, new_total, current_time, end_ts>> >>
      \o (IF ext THEN << <<"AucExtend", auction_id, end_ts>> >> ELSE <<>>)

\* The events of an accepted bid: lines 134 and 136.
BidEvents(auction_id, bidder, new_total, current_time, ext, end_ts) ==
    (IF ext THEN << <<"AucExtend", auction_id, end_ts>> >> ELSE <<>>)
      \o << <<"BidPlaced", auction_id, bidder, new_total, current_time, end_ts>> >>

BidResult(auction_id, bidder, amount, current_time) ==
    LET err == BidValidate(auction_id, amount, current_time)
    IN IF err # "" THEN Raise(err)
       ELSE LET auction == auctions[auction_id]
                current_bid == get_bid(bids, auction_id, bidder)
                new_total == current_bid + amount
                \* the total is written before the two requirements are checked
                written == SetBid(bids, auction_id, bidder, new_total)
                req == BidRequirement(auction, new_total)
                led == Commit(auction, bidder, new_total)
                ext == Extends(led, current_time)
                after == IF ext
                         THEN [led EXCEPT !.end_ts = led.end_ts + led.extend_secs,
                                          !.extensions_count = led.extensions_count + 1]
                         ELSE led
            IN IF req # ""
               THEN Outcome(req, "", auctions, written, next_id, events)
               ELSE Outcome("", "true",
                            [auctions EXCEPT ![auction_id] = after],
                            written,
                            next_id,
                            events
                              \o BidEvents(auction_id, bidder, new_total,
                                           current_time, ext, after.end_ts))

Bid(auction_id, bidder, amount, current_time) ==
    LET r == BidResult(auction_id, bidder, amount, current_time)
    IN /\ Apply("bid", r)
       /\ accepted' = IF r.err = ""
                      THEN [accepted EXCEPT ![auction_id] = @ + amount]
                      ELSE accepted
       /\ UNCHANGED orig_end

(***************************************************************************)
(* finalize                                                                *)
(***************************************************************************)
\* finalize without the test for a settled auction
FinalizeErrorNoSettled(auction_id, current_time) ==
    IF auction_id \notin DOMAIN auctions THEN "auction-not-found"
    ELSE IF current_time < auctions[auction_id].end_ts THEN "auction-not-ended"
    ELSE ""

FinalizeError(auction_id, current_time) ==
    IF auction_id \notin DOMAIN auctions THEN "auction-not-found"
    ELSE IF auctions[auction_id].settled THEN "already-settled"
    ELSE IF current_time < auctions[auction_id].end_ts THEN "auction-not-ended"
    ELSE ""

\* the winner charged their own total
ClearingPriceFirstPrice(auction) == Max(auction.best_bid, auction.reserve)

\* the second bid charged even below the reserve
ClearingPriceNoReserve(auction) == auction.second_bid

ClearingPrice(auction) == Max(auction.second_bid, auction.reserve)

FinalizeResult(auction_id, lessor, new_lessee, current_time) ==
    LET err == FinalizeError(auction_id, current_time)
    IN IF err # "" THEN Raise(err)
       ELSE LET auction == auctions[auction_id]
                clearing_price == ClearingPrice(auction)
                winner_refund == auction.best_bid - clearing_price
                settled == [auctions EXCEPT ![auction_id].settled = TRUE]
            IN IF auction.best_bid < auction.reserve
               THEN Outcome("", "false", settled, bids, next_id,
                            events \o RefundAll(bids, auction_id)
                              \o << <<"AucFailed", auction_id, auction.reserve>> >>)
               ELSE Outcome("", "true", settled,
                            ClearBids(bids, auction_id),
                            next_id,
                            events
                              \o << <<"Payment", "seller", auction.seller,
                                      clearing_price>> >>
                              \o (IF winner_refund > 0
                                  THEN << <<"Refund", auction_id,
                                            auction.best_bidder, winner_refund>> >>
                                  ELSE <<>>)
                              \o RefundOthers(bids, auction_id, auction.best_bidder)
                              \o << <<"AucFinal", auction_id, auction.best_bidder,
                                      clearing_price, auction.lease_id>> >>)

Finalize(auction_id, lessor, new_lessee, current_time) ==
    /\ Apply("finalize", FinalizeResult(auction_id, lessor, new_lessee, current_time))
    /\ UNCHANGED <<accepted, orig_end>>

(***************************************************************************)
(* cancel                                                                  *)
(***************************************************************************)
\* cancel refused as soon as there is a bid, whatever the time
CancelErrorAnyTime(auction_id, current_time) ==
    IF auction_id \notin DOMAIN auctions THEN "auction-not-found"
    ELSE IF auctions[auction_id].settled THEN "already-settled"
    ELSE IF auctions[auction_id].best_bid > 0 THEN "cannot-cancel-with-bids"
    ELSE ""

CancelError(auction_id, current_time) ==
    IF auction_id \notin DOMAIN auctions THEN "auction-not-found"
    ELSE IF auctions[auction_id].settled THEN "already-settled"
    ELSE IF auctions[auction_id].best_bid > 0
            /\ current_time >= auctions[auction_id].start_ts
         THEN "cannot-cancel-with-bids"
    ELSE ""

CancelResult(auction_id, current_time) ==
    LET err == CancelError(auction_id, current_time)
    IN IF err # "" THEN Raise(err)
       ELSE LET has_bids == auctions[auction_id].best_bid > 0
            IN Outcome("", "true",
                       [auctions EXCEPT ![auction_id].settled = TRUE],
                       bids,
                       next_id,
                       events
                         \o (IF has_bids THEN RefundAll(bids, auction_id) ELSE <<>>)
                         \o << <<"AucCancel", auction_id>> >>)

Cancel(auction_id, current_time) ==
    /\ Apply("cancel", CancelResult(auction_id, current_time))
    /\ UNCHANGED <<accepted, orig_end>>

(***************************************************************************)
(* get_status                                                              *)
(***************************************************************************)
get_status(auction_id, current_time) ==
    IF auction_id \notin DOMAIN auctions THEN "auction-not-found"
    ELSE IF auctions[auction_id].settled THEN "settled"
    ELSE IF current_time < auctions[auction_id].start_ts THEN "pending"
    ELSE IF current_time <= auctions[auction_id].end_ts THEN "active"
    ELSE "ended"

(***************************************************************************)
(* The callers: any operation with any arguments of the input sets, in any *)
(* order; now is supplied by the caller and need not increase.             *)
(***************************************************************************)
RECURSIVE SumBids(_)
SumBids(bs) == IF bs = <<>> THEN 0 ELSE Head(bs).amount + SumBids(Tail(bs))

WithinBounds ==
    /\ Len(events') <= MaxEvents
    /\ SumBids(bids') <= MaxEscrow

DoCreate ==
    /\ next_id <= MaxAuctions
    /\ \E lease_id \in LeaseIds, unit \in Units, seller \in Sellers,
          token \in Tokens, c \in Configs :
          Create(lease_id, unit, seller, token, c.reserve, c.min_increment,
                 c.start_ts, c.end_ts, c.extend_secs, c.extend_window)
    /\ WithinBounds

DoBid ==
    /\ \E auction_id \in AuctionIds, bidder \in Bidders, amount \in Amounts,
          current_time \in Times :
          Bid(auction_id, bidder, amount, current_time)
    /\ WithinBounds

DoFinalize ==
    /\ \E auction_id \in AuctionIds, lessor \in Lessors, new_lessee \in Lessees,
          current_time \in Times :
          Finalize(auction_id, lessor, new_lessee, current_time)
    /\ WithinBounds

DoCancel ==
    /\ \E auction_id \in AuctionIds, current_time \in Times :
          Cancel(auction_id, current_time)
    /\ WithinBounds

Next == DoCreate \/ DoBid \/ DoFinalize \/ DoCancel

Spec == Init /\ [][Next]_vars

(***************************************************************************)
(* Late bidding: one auction and one bidder who keeps raising by one unit  *)
(* a few seconds before the current close, inside the extension window or  *)
(* just outside it, long enough for the extension cap to be reached.       *)
(***************************************************************************)
SnipeConfig ==
    [reserve |-> 1, min_increment |-> 1, start_ts |-> 0, end_ts |-> 2,
     extend_secs |-> 1, extend_window |-> 1]
SnipeBidders == {"alice"}
SnipeAmounts == {1}
SnipeLeads == {1, 2}

DoSnipeCreate ==
    /\ next_id = 1
    /\ \E lease_id \in LeaseIds, unit \in Units, seller \in Sellers,
          token \in Tokens :
          Create(lease_id, unit, seller, token, SnipeConfig.reserve,
                 SnipeConfig.min_increment, SnipeConfig.start_ts,
                 SnipeConfig.end_ts, SnipeConfig.extend_secs,
                 SnipeConfig.extend_window)

DoSnipeBid ==
    /\ 1 \in DOMAIN auctions
    /\ \E bidder \in SnipeBidders, amount \in SnipeAmounts, lead \in SnipeLeads :
          Bid(1, bidder, amount, auctions[1].end_ts - lead)
    /\ SumBids(bids') <= MaxSnipeTotal

NextSnipe == DoSnipeCreate \/ DoSnipeBid

SpecSnipe == Init /\ [][NextSnipe]_vars

(***************************************************************************)
(* The seller among the bidders: bid takes any bidder, the seller of the   *)
(* auction included.  One auction, with the seller and one other bidder.   *)
(***************************************************************************)
OwnBidders == Sellers \cup {"alice"}

DoOwnCreate ==
    /\ next_id = 1
    /\ \E lease_id \in LeaseIds, unit \in Units, seller \in Sellers,
          token \in Tokens, c \in Configs :
          Create(lease_id, unit, seller, token, c.reserve, c.min_increment,
                 c.start_ts, c.end_ts, c.extend_secs, c.extend_window)
    /\ WithinBounds

DoOwnBid ==
    /\ \E bidder \in OwnBidders, amount \in Amounts, current_time \in Times :
          Bid(1, bidder, amount, current_time)
    /\ WithinBounds

DoOwnFinalize ==
    /\ \E lessor \in Lessors, new_lessee \in Lessees, current_time \in Times :
          Finalize(1, lessor, new_lessee, current_time)
    /\ WithinBounds

DoOwnCancel ==
    /\ \E current_time \in Times : Cancel(1, current_time)
    /\ WithinBounds

NextOwn == DoOwnCreate \/ DoOwnBid \/ DoOwnFinalize \/ DoOwnCancel

SpecOwn == Init /\ [][NextOwn]_vars

(***************************************************************************)
(* The reference run of test_happy_path: one auction with reserve 100 and  *)
(* increment 10, on which bidder1 and bidder2 place 150, 200, 60 and 50 in *)
(* that order, each at any of the times below (a bid outside the window is *)
(* refused and placed again), and which is finalized at any of them.       *)
(* Times are seconds after the current_time of the test.                   *)
(***************************************************************************)
RefConfig ==
    [reserve |-> 100, min_increment |-> 10, start_ts |-> 60, end_ts |-> 3600,
     extend_secs |-> 60, extend_window |-> 30]
RefSeller == "seller123"
RefBids ==
    << [bidder |-> "bidder1", amount |-> 150],
       [bidder |-> "bidder2", amount |-> 200],
       [bidder |-> "bidder1", amount |-> 60],
       [bidder |-> "bidder2", amount |-> 50] >>
RefTimes == {0, 60, 120, 180, 240, 300, 3700}

RefPlaced == Cardinality({i \in 1 .. Len(events) : events[i][1] = "BidPlaced"})

DoRefCreate ==
    /\ next_id = 1
    /\ \E lease_id \in LeaseIds, unit \in Units, token \in Tokens :
          Create(lease_id, unit, RefSeller, token, RefConfig.reserve,
                 RefConfig.min_increment, RefConfig.start_ts, RefConfig.end_ts,
                 RefConfig.extend_secs, RefConfig.extend_window)

DoRefBid ==
    /\ 1 \in DOMAIN auctions
    /\ RefPlaced < Len(RefBids)
    /\ \E current_time \in RefTimes :
          Bid(1, RefBids[RefPlaced + 1].bidder, RefBids[RefPlaced + 1].amount,
              current_time)

DoRefFinalize ==
    /\ 1 \in DOMAIN auctions
    /\ \E lessor \in Lessors, current_time \in RefTimes :
          Finalize(1, lessor, RefBids[Len(RefBids)].bidder, current_time)

NextRef == DoRefCreate \/ DoRefBid \/ DoRefFinalize

SpecRef == Init /\ [][NextRef]_vars

(***************************************************************************)
(* The lock daemon (src/lock/iot_lock_daemon.py).  LockDaemon.locks maps a *)
(* lease id to the state of its lock and the event that set it; a lease    *)
(* that is not in the map counts as LOCKED.  apply_event handles one       *)
(* parsed event and, when the event changes a lock, writes the whole map   *)
(* to the state file; a daemon that starts has an empty map and loads the  *)
(* file into it.  The mock lock display it also updates holds no state of  *)
(* the daemon and is left out.                                             *)
(***************************************************************************)
LockLeaseIds == {"NYC123", "unknown"}
LockEventTypes ==
    {"Activated", "Delinq", "Delinquent", "LeaseEnded", "LeaseActivated",
     "SubleaseGranted", "Unknown"}
LockWhos == {"G..."}
LockStamps == {"ts1", "ts2"}
LockEventIds == {"id1"}

\* apply_event locking on the legacy activation event
NewLockStateLegacyLocked(ev_type) ==
    IF ev_type = "Activated" THEN "UNLOCKED"
    ELSE IF ev_type = "Delinq" THEN "LOCKED"
    ELSE IF ev_type \in {"Delinquent", "LeaseEnded", "LeaseActivated"}
         THEN "LOCKED"
    ELSE "none"

\* The state an event type sets, "none" for the types that return early.
NewLockState(ev_type) ==
    IF ev_type = "Activated" THEN "UNLOCKED"
    ELSE IF ev_type = "Delinq" THEN "LOCKED"
    ELSE IF ev_type \in {"Delinquent", "LeaseEnded", "LeaseActivated"}
         THEN (IF ev_type = "LeaseActivated" THEN "UNLOCKED" ELSE "LOCKED")
    ELSE "none"

apply_event(lks, lease_id, ev_type, who, ts, event_id) ==
    IF NewLockState(ev_type) = "none" THEN lks
    ELSE Put(lks, lease_id,
             [state |-> NewLockState(ev_type),
              last_event |-> [type |-> ev_type, who |-> who, ts |-> ts,
                              id |-> event_id]])

\* self.locks.update(json.load(f)): the entries of the file over the map.
\* A file that does not decode leaves the map as it is, with a warning.
load_state(lks, file, ok) ==
    IF ~ok THEN lks
    ELSE [k \in DOMAIN lks \cup DOMAIN file |->
             IF k \in DOMAIN file THEN file[k] ELSE lks[k]]

AuctionsUnchanged == UNCHANGED <<auctions, bids, next_id, events, accepted, orig_end>>

\* One call of apply_event.  The record of the call keeps its arguments and
\* whether the call before it was apply_event with the same arguments.
ApplyEvent(lease_id, ev_type, who, ts, event_id) ==
    LET args == <<lease_id, ev_type, who, ts, event_id>>
    IN /\ locks' = apply_event(locks, lease_id, ev_type, who, ts, event_id)
       /\ state_file' = IF NewLockState(ev_type) = "none" THEN state_file
                        ELSE locks'
       /\ state_file_ok' = IF NewLockState(ev_type) = "none" THEN state_file_ok
                           ELSE TRUE
       /\ last' = Call("apply_event", "",
                       [args |-> args,
                        twice |-> last.op = "apply_event" /\ last.ret.args = args])
       /\ AuctionsUnchanged
       /\ UNCHANGED loop

DoApplyEvent ==
    \E lease_id \in LockLeaseIds, ev_type \in LockEventTypes, who \in LockWhos,
       ts \in LockStamps, event_id \in LockEventIds :
        ApplyEvent(lease_id, ev_type, who, ts, event_id)

\* main(): a new LockDaemon, whose map is empty, loads the state file.
DoRestart ==
    /\ locks' = load_state(<<>>, state_file, state_file_ok)
    /\ last' = Call("load_state", "", "")
    /\ UNCHANGED <<state_file, state_file_ok>>
    /\ AuctionsUnchanged
    /\ UNCHANGED loop

NextLock == DoApplyEvent \/ DoRestart

SpecLock == Init /\ [][NextLock]_vars

(***************************************************************************)
(* The polling loop of the daemon (LockDaemon.run).  The contract's events *)
(* form a stream; a cursor is a position in it: the number of events that  *)
(* precede it, 0 for the absent or empty cursor with which the daemon      *)
(* starts from the first ledger it looks at.  getEvents answers with an    *)
(* error, or with the next events after the cursor it was given (at most   *)
(* BatchLimit of them) and the cursor behind the last of them, which the   *)
(* answer may also lack.  pc is the place of the daemon in the loop:       *)
(* "fetch" before fetch_events, "apply" inside the for loop and up to      *)
(* put_cursor.  The process can be stopped and started again at any point: *)
(* it then has what the two files hold.  save_state and put_cursor write   *)
(* their file in place: open(path, "w") empties it and the content follows, *)
(* so a stop between the two leaves the state file undecodable, or the     *)
(* cursor file empty.  A write that is not cut short succeeds.             *)
(***************************************************************************)
BatchLimit == 2

LockStream ==
    << [lease_id |-> "NYC123", ev_type |-> "Activated", who |-> "G...",
        ts |-> "ts1", event_id |-> "id1"],
       [lease_id |-> "unknown", ev_type |-> "Unknown", who |-> "G...",
        ts |-> "ts1", event_id |-> "id2"],
       [lease_id |-> "NYC123", ev_type |-> "Delinq", who |-> "G...",
        ts |-> "ts2", event_id |-> "id3"],
       [lease_id |-> "NYC123", ev_type |-> "SubleaseGranted", who |-> "G...",
        ts |-> "ts2", event_id |-> "id4"],
       [lease_id |-> "NYC123", ev_type |-> "LeaseActivated", who |-> "G...",
        ts |-> "ts2", event_id |-> "id5"] >>

\* The for loop over the events of the batch has run to its end.
BatchDone == pending = <<>>

\* fetch_events returned an error: the loop sleeps and starts over.
DoFetchError ==
    /\ pc = "fetch"
    /\ last' = Call("fetch_events", "error", "")
    /\ UNCHANGED <<locks, state_file, state_file_ok, loop>>
    /\ AuctionsUnchanged

\* fetch_events returned a result: n events after the cursor and, if the
\* answer has one, the cursor behind them.
DoFetch ==
    /\ pc = "fetch"
    /\ \E n \in 0 .. BatchLimit, has_cursor \in BOOLEAN :
          /\ cursor + n <= Len(LockStream)
          /\ pending' = [i \in 1 .. n |-> cursor + i]
          /\ next_cursor' = IF has_cursor THEN cursor + n ELSE 0
    /\ pc' = "apply"
    /\ last' = Call("fetch_events", "", "")
    /\ UNCHANGED <<locks, state_file, state_file_ok, cursor_file, cursor, applied>>
    /\ AuctionsUnchanged

\* One turn of the for loop: parse_event and apply_event on the next event.
DoApplyNext ==
    /\ pc = "apply"
    /\ pending # <<>>
    /\ LET ev == LockStream[Head(pending)]
       IN /\ locks' = apply_event(locks, ev.lease_id, ev.ev_type, ev.who, ev.ts,
                                  ev.event_id)
          /\ state_file' = IF NewLockState(ev.ev_type) = "none" THEN state_file
                           ELSE locks'
          /\ state_file_ok' = IF NewLockState(ev.ev_type) = "none"
                              THEN state_file_ok ELSE TRUE
          /\ last' = Call("apply_event", "",
                          [index |-> Head(pending),
                           again |-> Head(pending) \in applied])
    /\ applied' = applied \cup {Head(pending)}
    /\ pending' = Tail(pending)
    /\ UNCHANGED <<cursor_file, cursor, next_cursor, pc>>
    /\ AuctionsUnchanged

\* An exception inside the for loop: the rest of the batch is dropped, the
\* loop sleeps and starts over with the cursor it had.
DoApplyRaise ==
    /\ pc = "apply"
    /\ pending # <<>>
    /\ pending' = <<>>
    /\ pc' = "fetch"
    /\ last' = Call("apply_event", "exception", "")
    /\ UNCHANGED <<locks, state_file, state_file_ok, cursor_file, cursor, next_cursor, applied>>
    /\ AuctionsUnchanged

\* After the for loop: the cursor of the answer, if there is one, is written
\* to the cursor file and kept for the next fetch.
DoPutCursor ==
    /\ pc = "apply"
    /\ BatchDone
    /\ IF next_cursor # 0
       THEN cursor_file' = next_cursor /\ cursor' = next_cursor
       ELSE UNCHANGED <<cursor_file, cursor>>
    /\ pending' = <<>>
    /\ pc' = "fetch"
    /\ last' = Call("put_cursor", "", "")
    /\ UNCHANGED <<locks, state_file, state_file_ok, next_cursor, applied>>
    /\ AuctionsUnchanged

\* main() with the two files as the stopped process left them: load_state
\* into an empty map, then run with get_cursor.
Start(file, ok, cfile) ==
    /\ state_file' = file
    /\ state_file_ok' = ok
    /\ cursor_file' = cfile
    /\ locks' = load_state(<<>>, file, ok)
    /\ cursor' = cfile
    /\ pending' = <<>>
    /\ next_cursor' = 0
    /\ pc' = "fetch"
    /\ UNCHANGED applied
    /\ AuctionsUnchanged

\* The process is stopped with no write of a file under way, and main()
\* runs again.
DoStopAndStart ==
    /\ Start(state_file, state_file_ok, cursor_file)
    /\ last' = Call("main", "", "")

\* The process is stopped inside the save_state of the next event, after the
\* state file was opened for writing (line 68) and before json.dump has
\* written it: the file is left without a map, and main() runs again.
DoStopInSaveState ==
    /\ pc = "apply"
    /\ pending # <<>>
    /\ NewLockState(LockStream[Head(pending)].ev_type) # "none"
    /\ Start(<<>>, FALSE, cursor_file)
    /\ last' = Call("main", "", "save_state")

\* The process is stopped inside put_cursor, after the cursor file was opened
\* for writing (line 87) and before the cursor has been written: the file is
\* left empty, which get_cursor reads as no cursor, and main() runs again.
DoStopInPutCursor ==
    /\ pc = "apply"
    /\ BatchDone
    /\ next_cursor # 0
    /\ Start(state_file, state_file_ok, 0)
    /\ last' = Call("main", "", "put_cursor")

NextPoll ==
    \/ DoFetchError
    \/ DoFetch
    \/ DoApplyNext
    \/ DoApplyRaise
    \/ DoPutCursor
    \/ DoStopAndStart
    \/ DoStopInSaveState
    \/ DoStopInPutCursor

SpecPoll == Init /\ [][NextPoll]_vars

(***************************************************************************)
(* Reading the event log.                                                  *)
(***************************************************************************)
EventsOf(kind) == {i \in 1 .. Len(events) : events[i][1] = kind}

RefundsOf(a) == {i \in EventsOf("Refund") : events[i][2] = a}

FinalOf(a) == {i \in EventsOf("AucFinal") : events[i][2] = a}

FailedOf(a) == {i \in EventsOf("AucFailed") : events[i][2] = a}

\* A Payment event does not carry the auction id: it belongs to the finalize
\* call that appended it, whose AucFinal event is the next one in the log.
PayoutsOf(a) ==
    {j \in EventsOf("Payment") :
        \E i \in FinalOf(a) :
            /\ i > j
            /\ \A k \in EventsOf("AucFinal") : k > j => k >= i}

RECURSIVE SumAt(_)
SumAt(S) ==
    IF S = {} THEN 0
    ELSE LET i == CHOOSE x \in S : TRUE IN events[i][4] + SumAt(S \ {i})

IsFinalized(a) == FinalOf(a) # {} \/ FailedOf(a) # {}

LastEvent(evs) == evs[Len(evs)]

\* The totals escrowed in auction a, and the second-highest distinct one
\* (0 when there is none).
TotalsOf(bs, a) == {bs[i].amount : i \in {j \in 1 .. Len(bs) : bs[j].aid = a}}

SetMax(S) == CHOOSE x \in S : \A y \in S : y <= x

SecondHighest(bs, a) ==
    LET totals == TotalsOf(bs, a) \ {0}
    IN IF totals = {} THEN 0
       ELSE LET rest == totals \ {SetMax(totals)}
            IN IF rest = {} THEN 0 ELSE SetMax(rest)

BidAccepted == last.op = "bid" /\ last.err = ""

(***************************************************************************)
(* C1. Conservation: for every finalized auction the Payment and Refund    *)
(* amounts emitted for it add up to the amounts of its accepted bids.      *)
(* The code refunds the escrow of every auction under the id of the one    *)
(* being finalized, and escrow includes the rejected bids (C3).            *)
(***************************************************************************)
C1_Conservation ==
    \A a \in DOMAIN auctions :
        IsFinalized(a) =>
            SumAt(PayoutsOf(a)) + SumAt(RefundsOf(a)) = accepted[a]

(***************************************************************************)
(* C2. Second-price correctness: a successful finalize charges the greater *)
(* of the reserve and the second-highest distinct escrow total held in the *)
(* auction at the close.  The code charges second_bid, which after a raise *)
(* by the leader is the leader's own previous total.                       *)
(***************************************************************************)
C2_SecondPrice ==
    [][\A a \in DOMAIN auctions :
          (/\ last'.op = "finalize" /\ last'.ret = "true"
           /\ ~auctions[a].settled /\ auctions'[a].settled)
          => LastEvent(events')[4]
               = Max(SecondHighest(bids, a), auctions[a].reserve)]_vars

(***************************************************************************)
(* C3. A bid rejected with below-reserve or insufficient-increment leaves  *)
(* the bidder's escrow total in that auction as it was.  The code writes   *)
(* the new total before it checks the two requirements.                    *)
(***************************************************************************)
C3_RejectedBidKeepsEscrow ==
    [][\A a \in AuctionIds, b \in Bidders, amt \in Amounts, t \in Times :
          (Bid(a, b, amt, t)
           /\ last'.err \in {"below-reserve", "insufficient-increment"})
          => get_bid(bids', a, b) = get_bid(bids, a, b)]_vars

(***************************************************************************)
(* C4. Terminal state.  As claimed: every bid, finalize or cancel on a     *)
(* settled auction fails with the already-settled error and changes        *)
(* nothing.  That fails for a bid whose amount is not positive, which is   *)
(* rejected as invalid-amount before the auction is looked at.  Amended:   *)
(* such a bid fails with invalid-amount, every other call with the         *)
(* already-settled error, and all of them change nothing.                  *)
(***************************************************************************)
\* C4 as claimed: the already-settled error for every call, amount <= 0 included.
C4_TerminalAlwaysSettledError ==
    [][\A a \in DOMAIN auctions :
          auctions[a].settled =>
              /\ \A b \in Bidders, amt \in Amounts, t \in Times :
                    Bid(a, b, amt, t) =>
                        /\ last'.err = "auction-settled"
                        /\ UNCHANGED state
              /\ \A lessor \in Lessors, new_lessee \in Lessees, t \in Times :
                    Finalize(a, lessor, new_lessee, t) =>
                        /\ last'.err = "already-settled"
                        /\ UNCHANGED state
              /\ \A t \in Times :
                    Cancel(a, t) =>
                        /\ last'.err = "already-settled"
                        /\ UNCHANGED state]_vars

Untouched(r) ==
    /\ r.auctions = auctions
    /\ r.bids = bids
    /\ r.next_id = next_id
    /\ r.events = events

C4_SettledRejectsAll(a) ==
    /\ \A b \in Bidders, amt \in Amounts, t \in Times :
          LET r == BidResult(a, b, amt, t)
          IN /\ r.err = IF amt <= 0 THEN "invalid-amount" ELSE "auction-settled"
             /\ Untouched(r)
    /\ \A lessor \in Lessors, new_lessee \in Lessees, t \in Times :
          LET r == FinalizeResult(a, lessor, new_lessee, t)
          IN r.err = "already-settled" /\ Untouched(r)
    /\ \A t \in Times :
          LET r == CancelResult(a, t)
          IN r.err = "already-settled" /\ Untouched(r)

\* C4 as amended: a settled auction stays settled, and in every state each
\* call on a settled auction is rejected as above and changes nothing.
C4_TerminalIdempotent ==
    /\ [](\A a \in DOMAIN auctions :
             auctions[a].settled => C4_SettledRejectsAll(a))
    /\ [][\A a \in DOMAIN auctions :
             auctions[a].settled => auctions'[a].settled]_vars

C4_Witness ==
    /\ last.op = "bid" /\ last.err = "auction-settled"
    /\ \E a \in DOMAIN auctions : auctions[a].settled /\ auctions[a].best_bid > 0

(***************************************************************************)
(* C5. Every call that raises leaves auctions, bids, next_id and events    *)
(* as they were.  A bid rejected for the reserve or the increment has      *)
(* already written the bidder's new total (C3).                            *)
(***************************************************************************)
C5_RejectedLeavesState ==
    [][last'.err # "" => UNCHANGED state]_vars

(***************************************************************************)
(* C6. second_bid <= best_bid in every state of every auction.             *)
(***************************************************************************)
C6_SecondAtMostLeading ==
    \A a \in DOMAIN auctions : auctions[a].second_bid <= auctions[a].best_bid

C6_Witness ==
    \E a \in DOMAIN auctions :
        /\ auctions[a].second_bid > 0
        /\ auctions[a].second_bid < auctions[a].best_bid

(***************************************************************************)
(* C7. best_bid never decreases; an accepted bid raises it by at least     *)
(* min_increment; nothing but an accepted bid on the auction changes it.   *)
(***************************************************************************)
AcceptedBidOn(a) ==
    /\ last'.op = "bid" /\ last'.err = ""
    /\ \E b \in Bidders, amt \in Amounts, t \in Times : Bid(a, b, amt, t)

\* C7: best_bid never decreases, changes only by an accepted bid on the
\* auction, and then grows by at least min_increment.
C7_LeadingMonotonic ==
    [][\A a \in DOMAIN auctions :
          /\ auctions'[a].best_bid >= auctions[a].best_bid
          /\ auctions'[a].best_bid # auctions[a].best_bid => AcceptedBidOn(a)
          /\ AcceptedBidOn(a) =>
                auctions'[a].best_bid
                    >= auctions[a].best_bid + auctions[a].min_increment]_vars

C7_Witness ==
    /\ BidAccepted
    /\ \E a \in DOMAIN auctions :
          /\ auctions[a].second_bid > 0
          /\ LastEvent(events)[1] = "BidPlaced"
          /\ LastEvent(events)[2] = a
          /\ LastEvent(events)[4] = auctions[a].best_bid

(***************************************************************************)
(* C8. extensions_count <= max_extensions, the fixed cap 10, for every     *)
(* auction in every state.                                                 *)
(***************************************************************************)
C8_ExtensionBound ==
    \A a \in DOMAIN auctions :
        /\ auctions[a].max_extensions = 10
        /\ auctions[a].extensions_count <= auctions[a].max_extensions

\* A bid accepted inside the window after the cap was reached: no extension.
C8_Witness ==
    /\ BidAccepted
    /\ \E a \in DOMAIN auctions :
          /\ auctions[a].extensions_count = auctions[a].max_extensions
          /\ LastEvent(events)[1] = "BidPlaced"
          /\ LastEvent(events)[2] = a
          /\ auctions[a].end_ts - LastEvent(events)[5] <= auctions[a].extend_window
          /\ events[Len(events) - 1][1] = "BidPlaced"

(***************************************************************************)
(* C9. end_ts = original end + extensions_count * extend_secs, and so it   *)
(* never exceeds original end + max_extensions * extend_secs.  create      *)
(* accepts a negative extend_secs, and then the bound lies below end_ts.   *)
(***************************************************************************)
C9_EndTimeBounded ==
    \A a \in DOMAIN auctions :
        /\ auctions[a].end_ts
             = orig_end[a] + auctions[a].extensions_count * auctions[a].extend_secs
        /\ auctions[a].end_ts
             <= orig_end[a] + auctions[a].max_extensions * auctions[a].extend_secs

(***************************************************************************)
(* C10. bid fails with the first applicable error of invalid-amount,       *)
(* auction-not-found, auction-settled, auction-not-started, auction-ended, *)
(* below-reserve, insufficient-increment, where the new total is the       *)
(* bidder's escrow before the call plus the amount, and the window is      *)
(* inclusive at both ends; it is accepted exactly when none applies.       *)
(***************************************************************************)
C10_Expected(a, b, amt, t) ==
    IF ~(amt > 0) THEN "invalid-amount"
    ELSE IF a \notin DOMAIN auctions THEN "auction-not-found"
    ELSE IF auctions[a].settled THEN "auction-settled"
    ELSE IF ~(auctions[a].start_ts <= t) THEN "auction-not-started"
    ELSE IF ~(t <= auctions[a].end_ts) THEN "auction-ended"
    ELSE IF ~(get_bid(bids, a, b) + amt >= auctions[a].reserve) THEN "below-reserve"
    ELSE IF ~(get_bid(bids, a, b) + amt
                >= auctions[a].best_bid + auctions[a].min_increment)
         THEN "insufficient-increment"
    ELSE ""

\* C10: in every state, for every argument tuple, bid raises the first
\* applicable error of the list and returns True with a BidPlaced event
\* exactly when there is none.
C10_BidAcceptance ==
    \A a \in AuctionIds, b \in Bidders, amt \in Amounts, t \in Times :
        LET r == BidResult(a, b, amt, t)
            expected == C10_Expected(a, b, amt, t)
        IN /\ r.err = expected
           /\ (r.ret = "true") = (expected = "")
           /\ (r.ret = "true") =
                 (/\ Len(r.events) > Len(events)
                  /\ LastEvent(r.events)
                       = <<"BidPlaced", a, b, get_bid(bids, a, b) + amt, t,
                           r.auctions[a].end_ts>>)

C10_Witness ==
    /\ last.op = "bid" /\ last.err = "insufficient-increment"
    /\ \E i \in EventsOf("BidPlaced") : TRUE

(***************************************************************************)
(* C11. Active and Ended are disjoint: finalize is accepted only when      *)
(* now > end_ts, so at no clock value can both a bid and a finalize on the *)
(* same auction be accepted.  The code rejects finalize only when          *)
(* now < end_ts, and bid only when now > end_ts: at now = end_ts both are  *)
(* accepted.                                                               *)
(***************************************************************************)
C11_ActiveEndedDisjoint ==
    \A a \in DOMAIN auctions, t \in Times :
        LET finalizable ==
                \E lessor \in Lessors, new_lessee \in Lessees :
                    FinalizeResult(a, lessor, new_lessee, t).err = ""
            biddable ==
                \E b \in Bidders, amt \in Amounts : BidResult(a, b, amt, t).err = ""
        IN /\ finalizable => t > auctions[a].end_ts
           /\ ~(finalizable /\ biddable)

(***************************************************************************)
(* C12. cancel on an existing auction that is not settled raises           *)
(* cannot-cancel-with-bids exactly when a bid has been accepted            *)
(* (best_bid > 0) and now >= start_ts, and nothing else; an auction with   *)
(* no accepted bid is cancelled at any now: it becomes settled and the     *)
(* call appends the AucCancel event and no Refund.                         *)
(***************************************************************************)
C12_CancelRule ==
    \A a \in DOMAIN auctions :
        ~auctions[a].settled =>
            /\ (accepted[a] > 0) = (auctions[a].best_bid > 0)
            /\ \A t \in Times :
                  LET r == CancelResult(a, t)
                  IN /\ r.err \in {"", "cannot-cancel-with-bids"}
                     /\ (r.err = "cannot-cancel-with-bids")
                          = (accepted[a] > 0 /\ t >= auctions[a].start_ts)
                     /\ r.err = "" => r.auctions[a].settled
                     /\ accepted[a] = 0 =>
                           /\ r.err = ""
                           /\ r.events = Append(events, <<"AucCancel", a>>)

\* An auction cancelled after bidding on it had been tried and refused.
C12_Witness ==
    /\ last.op = "cancel" /\ last.err = ""
    /\ \E a \in DOMAIN auctions :
          /\ LastEvent(events) = <<"AucCancel", a>>
          /\ accepted[a] = 0
          /\ auctions[a].settled
          /\ RefundsOf(a) = {}
          /\ \E b \in Bidders : get_bid(bids, a, b) > 0

(***************************************************************************)
(* C13. After a finalize that returns, with the reserve met or not, every  *)
(* escrow entry of the auction is zero.  The reserve-not-met branch of the *)
(* code emits the refunds and leaves the entries in place; they hold the   *)
(* totals of the rejected bids (C3).                                       *)
(***************************************************************************)
C13_FinalizeZeroesEscrow ==
    [][\A a \in DOMAIN auctions :
          (/\ last'.op = "finalize" /\ last'.err = ""
           /\ ~auctions[a].settled /\ auctions'[a].settled)
          => \A b \in Bidders : get_bid(bids', a, b) = 0]_vars

(***************************************************************************)
(* C14. Settlement keeps auctions apart: every Refund appended by          *)
(* finalize or cancel of an auction names a bidder holding escrow in that  *)
(* auction, and the escrow of the other auctions is left as it was.  The   *)
(* refund loops of the code run over the entries of every auction.         *)
(***************************************************************************)
C14_RefundsOnlyOwnEscrow ==
    [][last'.op \in {"finalize", "cancel"} =>
          /\ \A i \in (Len(events) + 1) .. Len(events') :
                events'[i][1] = "Refund" =>
                    get_bid(bids, events'[i][2], events'[i][3]) > 0
          /\ \A a \in DOMAIN auctions, b \in Bidders :
                auctions'[a].settled = auctions[a].settled =>
                    get_bid(bids', a, b) = get_bid(bids, a, b)]_vars

(***************************************************************************)
(* C15. The reference run: the four bids give best_bid / second_bid of     *)
(* 150/0, 200/150, 210/200 and 250/210, and the finalize after the end     *)
(* pays the seller 210, refunds bidder2 (the winner) 40, refunds bidder1   *)
(* and declares bidder2 the winner at 210.  As claimed, bidder1 is         *)
(* refunded 150; the escrow of bidder1 at the close is 150 + 60 = 210, and *)
(* that is what the refund loop returns.                                   *)
(***************************************************************************)
C15_Leading == <<150, 200, 210, 250>>

C15_Second == <<0, 150, 200, 210>>

C15_Scenario(loser_refund) ==
    /\ RefPlaced > 0 =>
          /\ auctions[1].best_bid = C15_Leading[RefPlaced]
          /\ auctions[1].second_bid = C15_Second[RefPlaced]
          /\ auctions[1].best_bidder = RefBids[RefPlaced].bidder
    /\ (RefPlaced = Len(RefBids) /\ auctions[1].settled) =>
          SubSeq(events, Len(events) - 3, Len(events))
            = << <<"Payment", "seller", RefSeller, 210>>,
                 <<"Refund", 1, "bidder2", 40>>,
                 <<"Refund", 1, "bidder1", loser_refund>>,
                 <<"AucFinal", 1, "bidder2", 210, auctions[1].lease_id>> >>

\* C15 as claimed: bidder1 (A) is refunded 150.
C15_ReferenceScenarioAsClaimed == C15_Scenario(150)

\* C15 as amended: bidder1 (A) is refunded the whole escrow, 210.
C15_ReferenceScenario == C15_Scenario(210)

C15_Witness ==
    /\ last.op = "finalize" /\ last.ret = "true"
    /\ RefPlaced = Len(RefBids)
    /\ FinalOf(1) # {}
    /\ bids = <<>>

(***************************************************************************)
(* C16. An accepted bid extends the auction exactly when                   *)
(* extensions_count < max_extensions and end_ts - now <= extend_window: it *)
(* then adds extend_secs to end_ts once, adds one to extensions_count and  *)
(* appends one AucExtend event before its BidPlaced event.  Any other      *)
(* accepted bid and every rejected bid leave end_ts and extensions_count   *)
(* as they were and append no AucExtend.  So the auction of                *)
(* test_anti_sniping (end 120, window 30, extension 60) is extended to 180 *)
(* by a bid at 115.                                                        *)
(***************************************************************************)
SnipeExample ==
    NewAuction(1, 3, "unit:NYC:789-C", "seller789", "token123", 100, 10, 60, 120, 60, 30)

C16_BidTimes(a) ==
    Times \cup {auctions[a].end_ts - lead : lead \in SnipeLeads \cup {0, -1}}

C16_ExtensionTrigger ==
    /\ \A a \in DOMAIN auctions, b \in Bidders, amt \in Amounts :
        \A t \in C16_BidTimes(a) :
          LET r == BidResult(a, b, amt, t)
              due == /\ auctions[a].extensions_count < auctions[a].max_extensions
                     /\ auctions[a].end_ts - t <= auctions[a].extend_window
              appended == SubSeq(r.events, Len(events) + 1, Len(r.events))
              extended == {i \in 1 .. Len(appended) : appended[i][1] = "AucExtend"}
          IN IF r.err = "" /\ due
             THEN /\ r.auctions[a].end_ts
                       = auctions[a].end_ts + auctions[a].extend_secs
                  /\ r.auctions[a].extensions_count
                       = auctions[a].extensions_count + 1
                  /\ extended = {1}
                  /\ appended[1] = <<"AucExtend", a, r.auctions[a].end_ts>>
                  /\ Len(appended) = 2
             ELSE /\ r.auctions[a].end_ts = auctions[a].end_ts
                  /\ r.auctions[a].extensions_count = auctions[a].extensions_count
                  /\ extended = {}
    /\ Extends(SnipeExample, 115)
    /\ SnipeExample.end_ts + SnipeExample.extend_secs = 180

\* The bid that used the last extension: it was accepted, extended the
\* auction and brought extensions_count to the cap.
C16_Witness ==
    /\ BidAccepted
    /\ Len(events) >= 2
    /\ \E a \in DOMAIN auctions :
          /\ events[Len(events) - 1] = <<"AucExtend", a, auctions[a].end_ts>>
          /\ LastEvent(events)[1] = "BidPlaced"
          /\ auctions[a].extensions_count = auctions[a].max_extensions
          /\ auctions[a].end_ts
               = orig_end[a] + auctions[a].max_extensions * auctions[a].extend_secs

(***************************************************************************)
(* C17. create raises the first applicable of invalid-times                *)
(* (start_ts >= end_ts), invalid-reserve (reserve <= 0), invalid-increment *)
(* (min_increment <= 0), invalid-extend-window (zero) and                  *)
(* invalid-extend-secs (zero), in that order.  Otherwise it takes the id   *)
(* next_id, which no auction has and which is greater than every id in     *)
(* use, stores the auction with best_bid = 0, second_bid = 0,              *)
(* extensions_count = 0, best_bidder = seller and settled = False, leaves  *)
(* the other auctions alone and appends exactly one AucCreate event.       *)
(***************************************************************************)
C17_Expected(reserve, min_increment, start_ts, end_ts, extend_secs, extend_window) ==
    IF ~(start_ts < end_ts) THEN "invalid-times"
    ELSE IF ~(reserve > 0) THEN "invalid-reserve"
    ELSE IF ~(min_increment > 0) THEN "invalid-increment"
    ELSE IF extend_window = 0 THEN "invalid-extend-window"
    ELSE IF extend_secs = 0 THEN "invalid-extend-secs"
    ELSE ""

\* Arguments with none, one and several of the five faults at once.
C17_Args ==
    [reserve : {0, 1}, min_increment : {0, 1}, start_ts : {1, 3}, end_ts : {3},
     extend_secs : {-1, 0, 1}, extend_window : {0, 1}]

C17_CreateRule ==
    \A lease_id \in LeaseIds, unit \in Units, seller \in Sellers,
       token \in Tokens, c \in C17_Args :
        LET r == CreateResult(lease_id, unit, seller, token, c.reserve,
                              c.min_increment, c.start_ts, c.end_ts,
                              c.extend_secs, c.extend_window)
            expected == C17_Expected(c.reserve, c.min_increment, c.start_ts,
                                     c.end_ts, c.extend_secs, c.extend_window)
        IN /\ r.err = expected
           /\ r.err # "" => Untouched(r)
           /\ r.err = "" =>
                 /\ next_id \notin DOMAIN auctions
                 /\ \A a \in DOMAIN auctions : a < next_id
                 /\ DOMAIN r.auctions = DOMAIN auctions \cup {next_id}
                 /\ \A a \in DOMAIN auctions : r.auctions[a] = auctions[a]
                 /\ r.next_id > next_id
                 /\ r.auctions[next_id].id = next_id
                 /\ r.auctions[next_id].best_bid = 0
                 /\ r.auctions[next_id].second_bid = 0
                 /\ r.auctions[next_id].extensions_count = 0
                 /\ r.auctions[next_id].best_bidder = seller
                 /\ r.auctions[next_id].settled = FALSE
                 /\ r.auctions[next_id].reserve = c.reserve
                 /\ r.auctions[next_id].end_ts = c.end_ts
                 /\ r.bids = bids
                 /\ r.events = Append(events, <<"AucCreate", next_id, lease_id,
                                                seller, unit, c.reserve>>)

\* The second auction has just been created, after work on the first.
C17_Witness ==
    /\ last.op = "create" /\ last.err = ""
    /\ DOMAIN auctions = {1, 2}
    /\ next_id = 3
    /\ LastEvent(events)[1] = "AucCreate" /\ LastEvent(events)[2] = 2
    /\ auctions[1].best_bid > 0
    /\ auctions[2].best_bid = 0 /\ auctions[2].best_bidder = auctions[2].seller

(***************************************************************************)
(* C18. The seller never wins their own auction: no AucFinal event names   *)
(* the seller of its auction as the winner.  bid does not look at who the  *)
(* bidder is, so the seller can bid, lead and be declared the winner.      *)
(***************************************************************************)
C18_SellerNeverWins ==
    \A i \in EventsOf("AucFinal") :
        events[i][3] # auctions[events[i][2]].seller

(***************************************************************************)
(* C19. get_status reports, for every now, a terminal status for a         *)
(* finalized or cancelled auction, a different one for each of the three   *)
(* outcomes (reserve met, reserve not met, cancelled); for any other       *)
(* auction it reports pending iff now < start_ts, active iff               *)
(* start_ts <= now <= end_ts and ended iff now > end_ts, with the current  *)
(* end_ts.  The code keeps one flag for the three outcomes and reports     *)
(* "settled" for all of them.                                              *)
(***************************************************************************)
CancelledOf(a) == {i \in EventsOf("AucCancel") : events[i][2] = a}

C19_Outcome(a) ==
    IF FinalOf(a) # {} THEN "SettledSuccess"
    ELSE IF FailedOf(a) # {} THEN "SettledFailed"
    ELSE IF CancelledOf(a) # {} THEN "Cancelled"
    ELSE ""

C19_StatusByOutcome ==
    \A a \in DOMAIN auctions, t \in Times :
        IF auctions[a].settled
        THEN /\ get_status(a, t) \notin {"pending", "active", "ended"}
             /\ C19_Outcome(a) # ""
             /\ \A b \in DOMAIN auctions :
                   (auctions[b].settled /\ C19_Outcome(a) # C19_Outcome(b))
                   => get_status(a, t) # get_status(b, t)
        ELSE /\ C19_Outcome(a) = ""
             /\ (get_status(a, t) = "pending") = (t < auctions[a].start_ts)
             /\ (get_status(a, t) = "active")
                  = (auctions[a].start_ts <= t /\ t <= auctions[a].end_ts)
             /\ (get_status(a, t) = "ended") = (t > auctions[a].end_ts)

(***************************************************************************)
(* C20. apply_event is idempotent: applying an event to the map that       *)
(* results from applying it leaves that map as it is, and a call that      *)
(* repeats the call before it changes nothing.  Activated and              *)
(* LeaseActivated set the lock of the lease to UNLOCKED, Delinq,           *)
(* Delinquent and LeaseEnded set it to LOCKED, both leaving the other      *)
(* leases alone; SubleaseGranted and unknown types leave the map as it is. *)
(***************************************************************************)
C20_EventRule(lease_id, ev_type, who, ts, event_id) ==
    LET once == apply_event(locks, lease_id, ev_type, who, ts, event_id)
        again == apply_event(once, lease_id, ev_type, who, ts, event_id)
        expected == IF ev_type \in {"Activated", "LeaseActivated"} THEN "UNLOCKED"
                    ELSE IF ev_type \in {"Delinq", "Delinquent", "LeaseEnded"}
                         THEN "LOCKED"
                    ELSE "none"
    IN /\ again = once
       /\ IF expected = "none" THEN once = locks
          ELSE /\ DOMAIN once = DOMAIN locks \cup {lease_id}
               /\ once[lease_id].state = expected
               /\ \A k \in DOMAIN locks \ {lease_id} : once[k] = locks[k]

C20_ApplyEventIdempotent ==
    /\ [](\A lease_id \in LockLeaseIds, ev_type \in LockEventTypes,
             who \in LockWhos, ts \in LockStamps, event_id \in LockEventIds :
             C20_EventRule(lease_id, ev_type, who, ts, event_id))
    /\ [][(last'.op = "apply_event" /\ last'.ret.twice)
            => (locks' = locks /\ state_file' = state_file)]_vars

\* An unlocking event applied twice in succession to a lease that an
\* earlier event had locked.
C20_Witness ==
    /\ last.op = "apply_event"
    /\ last.ret.twice
    /\ last.ret.args[2] = "Activated"
    /\ locks[last.ret.args[1]].state = "UNLOCKED"
    /\ \E k \in DOMAIN locks : locks[k].state = "LOCKED"

(***************************************************************************)
(* C21. The cursor file changes only in put_cursor, to the cursor that     *)
(* came with the batch just fetched, and only when every event of that     *)
(* batch has been applied; an RPC error and an exception inside the for    *)
(* loop leave the cursor file and the cursor in memory as they were.  So   *)
(* every event of the stream before the persisted cursor has been applied  *)
(* at least once, and the lock it set is in the state file unless a later  *)
(* event on the lease replaced it, whatever the stops and restarts: none   *)
(* is skipped or lost.  A stop inside put_cursor empties the cursor file   *)
(* and a stop inside save_state leaves the state file undecodable, with    *)
(* the locks of the events behind the cursor gone.                         *)
(***************************************************************************)
C21_SetsLock(l, n) ==
    {i \in 1 .. n : LockStream[i].lease_id = l /\ NewLockState(LockStream[i].ev_type) # "none"}

C21_NoneLost ==
    \A l \in LockLeaseIds : \A i \in C21_SetsLock(l, cursor_file) :
        /\ state_file_ok
        /\ l \in DOMAIN state_file
        /\ \E j \in C21_SetsLock(l, Len(LockStream)) :
              j >= i /\ state_file[l].last_event.id = LockStream[j].event_id

C21_CursorAfterBatch ==
    /\ [](\A i \in 1 .. cursor_file : i \in applied)
    /\ []C21_NoneLost
    /\ [](cursor >= cursor_file)
    /\ [][cursor_file' # cursor_file =>
             /\ last'.op = "put_cursor"
             /\ pc = "apply" /\ pending = <<>>
             /\ cursor_file' = next_cursor
             /\ cursor_file' > cursor_file]_vars
    /\ [][last'.err # "" => UNCHANGED <<cursor_file, cursor>>]_vars

(***************************************************************************)
(* C22. An accepted bid writes the bidder's escrow entry as the old entry  *)
(* plus the amount, and sets second_bid to the best_bid held before the    *)
(* bid, best_bid to the new total and best_bidder to the bidder, touching  *)
(* no other field but end_ts and extensions_count.  The same when the      *)
(* bidder leads already: second_bid is then the leader's own previous      *)
(* total, whatever the other bidders hold.                                 *)
(***************************************************************************)
C22_AcceptedBidCommit ==
    \A a \in DOMAIN auctions, b \in Bidders, amt \in Amounts, t \in Times :
        LET r == BidResult(a, b, amt, t)
            new_total == get_bid(bids, a, b) + amt
        IN r.err = "" =>
              /\ get_bid(r.bids, a, b) = new_total
              /\ \A c \in Bidders \ {b} : get_bid(r.bids, a, c) = get_bid(bids, a, c)
              /\ r.auctions[a].second_bid = auctions[a].best_bid
              /\ r.auctions[a].best_bid = new_total
              /\ r.auctions[a].best_bidder = b
              /\ [r.auctions[a] EXCEPT !.second_bid = 0, !.best_bid = 0,
                                       !.best_bidder = "", !.end_ts = 0,
                                       !.extensions_count = 0]
                   = [auctions[a] EXCEPT !.second_bid = 0, !.best_bid = 0,
                                         !.best_bidder = "", !.end_ts = 0,
                                         !.extensions_count = 0]

\* The leader has raised their own bid: second_bid is their previous total,
\* above what any other bidder holds in the auction.
C22_Witness ==
    /\ BidAccepted
    /\ \E a \in DOMAIN auctions :
          /\ LastEvent(events)[1] = "BidPlaced"
          /\ LastEvent(events)[2] = a
          /\ LastEvent(events)[3] = auctions[a].best_bidder
          /\ auctions[a].second_bid > 0
          /\ \E i \in EventsOf("BidPlaced") :
                /\ i < Len(events)
                /\ events[i][2] = a
                /\ events[i][3] = auctions[a].best_bidder
                /\ events[i][4] = auctions[a].second_bid
          /\ \A c \in Bidders \ {auctions[a].best_bidder} :
                get_bid(bids, a, c) < auctions[a].second_bid

(***************************************************************************)
(* C23. An accepted bid appends exactly one BidPlaced event, as the last   *)
(* event of the call.  If the bid extends the auction, one AucExtend event *)
(* is appended immediately before it and nothing else; both carry the      *)
(* extended end time, which is the end_ts of the auction after the call.   *)
(* A bid that does not extend appends the BidPlaced event alone, and a     *)
(* rejected bid appends nothing.                                           *)
(***************************************************************************)
C23_BidEventOrder ==
    \A a \in DOMAIN auctions, b \in Bidders, amt \in Amounts, t \in Times :
        LET r == BidResult(a, b, amt, t)
            appended == SubSeq(r.events, Len(events) + 1, Len(r.events))
        IN /\ SubSeq(r.events, 1, Len(events)) = events
           /\ r.err # "" => appended = <<>>
           /\ r.err = "" =>
                 LET end_ts == r.auctions[a].end_ts
                     placed == <<"BidPlaced", a, b, r.auctions[a].best_bid, t, end_ts>>
                 IN IF end_ts # auctions[a].end_ts
                    THEN appended = << <<"AucExtend", a, end_ts>>, placed >>
                    ELSE appended = << placed >>

\* A bid at the close that extended the auction, after an earlier bid that
\* did not.
C23_Witness ==
    /\ BidAccepted
    /\ Len(events) >= 3
    /\ \E a \in DOMAIN auctions :
          /\ events[Len(events) - 1] = <<"AucExtend", a, auctions[a].end_ts>>
          /\ LastEvent(events)[1] = "BidPlaced"
          /\ LastEvent(events)[6] = auctions[a].end_ts
          /\ LastEvent(events)[5] = orig_end[a]
          /\ \E i \in EventsOf("BidPlaced") :
                i < Len(events) /\ events[i][2] = a /\ events[i][6] = orig_end[a]

(***************************************************************************)
(* C24. A finalize that returns True reconciles: the clearing price is     *)
(* max(second_bid, reserve) and lies between reserve and best_bid; the     *)
(* first event it appends pays the seller the clearing price; the winner   *)
(* is refunded best_bid - clearing_price by one Refund event, the next     *)
(* one, when that is positive, and by none when it is zero; so             *)
(* best_bid = clearing_price + winner refund.                              *)
(***************************************************************************)
C24_Reconciles ==
    \A a \in DOMAIN auctions, lessor \in Lessors, new_lessee \in Lessees,
       t \in Times :
        LET r == FinalizeResult(a, lessor, new_lessee, t)
            appended == SubSeq(r.events, Len(events) + 1, Len(r.events))
            clearing_price == IF auctions[a].second_bid >= auctions[a].reserve
                              THEN auctions[a].second_bid
                              ELSE auctions[a].reserve
            winner_refund == auctions[a].best_bid - clearing_price
            to_winner == {i \in 1 .. Len(appended) :
                             /\ appended[i][1] = "Refund"
                             /\ appended[i][3] = auctions[a].best_bidder}
        IN r.ret = "true" =>
              /\ auctions[a].reserve <= clearing_price
              /\ clearing_price <= auctions[a].best_bid
              /\ winner_refund >= 0
              /\ appended[1] = <<"Payment", "seller", auctions[a].seller,
                                 clearing_price>>
              /\ {i \in 1 .. Len(appended) : appended[i][1] = "Payment"} = {1}
              /\ IF winner_refund > 0
                 THEN /\ to_winner = {2}
                      /\ appended[2] = <<"Refund", a, auctions[a].best_bidder,
                                         winner_refund>>
                 ELSE to_winner = {}
              /\ appended[Len(appended)]
                   = <<"AucFinal", a, auctions[a].best_bidder, clearing_price,
                       auctions[a].lease_id>>

\* A finalize that paid the seller the second bid, above the reserve, and
\* refunded the winner the rest.
C24_Witness ==
    /\ last.op = "finalize" /\ last.ret = "true"
    /\ \E a \in DOMAIN auctions :
          /\ LastEvent(events)[1] = "AucFinal" /\ LastEvent(events)[2] = a
          /\ LastEvent(events)[4] = auctions[a].second_bid
          /\ auctions[a].second_bid > auctions[a].reserve
          /\ \E i \in RefundsOf(a) :
                /\ events[i][3] = auctions[a].best_bidder
                /\ events[i][4] = auctions[a].best_bid - auctions[a].second_bid
                /\ events[i - 1] = <<"Payment", "seller", auctions[a].seller,
                                     auctions[a].second_bid>>

(***************************************************************************)
(* C25. A cancel that succeeds on an auction holding escrow emits one      *)
(* Refund for each non-zero entry of the auction, with the amount of the   *)
(* entry, and zeroes the entries: afterwards get_bid is 0 for every bidder *)
(* of the auction.  The code emits the refunds and leaves the entries.     *)
(***************************************************************************)
C25_CancelRefundsAndZeroes ==
    [][\A a \in DOMAIN auctions :
          (/\ last'.op = "cancel" /\ last'.err = ""
           /\ ~auctions[a].settled /\ auctions'[a].settled
           /\ auctions[a].best_bid > 0)
          => /\ \A b \in Bidders :
                   get_bid(bids, a, b) > 0 =>
                       \E i \in (Len(events) + 1) .. Len(events') :
                           events'[i] = <<"Refund", a, b, get_bid(bids, a, b)>>
             /\ \A b \in Bidders : get_bid(bids', a, b) = 0]_vars

(***************************************************************************)
(* C26. Frame.  A bid, finalize or cancel on an auction, accepted or       *)
(* rejected, leaves the record and the escrow entries of every other       *)
(* auction as they were.  And what a call on an auction raises, and what   *)
(* it makes of that auction's record and entries, is a function of that    *)
(* record, those entries and the arguments, and of nothing else in the     *)
(* state.  So two calls on different auctions give the same records and    *)
(* escrow in either order.                                                 *)
(***************************************************************************)
EntriesOf(bs, a) == [c \in Bidders |-> get_bid(bs, a, c)]

C26_Leaves(r, a) ==
    /\ DOMAIN r.auctions = DOMAIN auctions
    /\ \A b \in DOMAIN auctions \ {a} :
          /\ r.auctions[b] = auctions[b]
          /\ EntriesOf(r.bids, b) = EntriesOf(bids, b)

C26_Effect(r, a) ==
    [err |-> r.err, record |-> r.auctions[a], entries |-> EntriesOf(r.bids, a)]

\* What the three calls make of an auction, computed from the record of
\* the auction and its escrow entries alone.
C26_BidLocal(auction, entries, b, amt, t) ==
    LET new_total == entries[b] + amt
        written == [entries EXCEPT ![b] = new_total]
        led == Commit(auction, b, new_total)
        after == IF Extends(led, t)
                 THEN [led EXCEPT !.end_ts = led.end_ts + led.extend_secs,
                                  !.extensions_count = led.extensions_count + 1]
                 ELSE led
        refused(err) == [err |-> err, record |-> auction, entries |-> entries]
    IN IF amt <= 0 THEN refused("invalid-amount")
       ELSE IF auction.settled THEN refused("auction-settled")
       ELSE IF t < auction.start_ts THEN refused("auction-not-started")
       ELSE IF t > auction.end_ts THEN refused("auction-ended")
       ELSE IF BidRequirement(auction, new_total) # ""
            THEN [err |-> BidRequirement(auction, new_total), record |-> auction,
                  entries |-> written]
       ELSE [err |-> "", record |-> after, entries |-> written]

C26_FinalizeLocal(auction, entries, t) ==
    IF auction.settled
    THEN [err |-> "already-settled", record |-> auction, entries |-> entries]
    ELSE IF t < auction.end_ts
    THEN [err |-> "auction-not-ended", record |-> auction, entries |-> entries]
    ELSE [err |-> "", record |-> [auction EXCEPT !.settled = TRUE],
          entries |-> IF auction.best_bid < auction.reserve THEN entries
                      ELSE [c \in Bidders |-> 0]]

C26_CancelLocal(auction, entries, t) ==
    IF auction.settled
    THEN [err |-> "already-settled", record |-> auction, entries |-> entries]
    ELSE IF auction.best_bid > 0 /\ t >= auction.start_ts
    THEN [err |-> "cannot-cancel-with-bids", record |-> auction,
          entries |-> entries]
    ELSE [err |-> "", record |-> [auction EXCEPT !.settled = TRUE],
          entries |-> entries]

C26_Frame ==
    \A a \in DOMAIN auctions :
        /\ \A b \in Bidders, amt \in Amounts, t \in Times :
              LET r == BidResult(a, b, amt, t)
              IN /\ C26_Leaves(r, a)
                 /\ C26_Effect(r, a)
                      = C26_BidLocal(auctions[a], EntriesOf(bids, a), b, amt, t)
        /\ \A lessor \in Lessors, new_lessee \in Lessees, t \in Times :
              LET r == FinalizeResult(a, lessor, new_lessee, t)
              IN /\ C26_Leaves(r, a)
                 /\ C26_Effect(r, a)
                      = C26_FinalizeLocal(auctions[a], EntriesOf(bids, a), t)
        /\ \A t \in Times :
              LET r == CancelResult(a, t)
              IN /\ C26_Leaves(r, a)
                 /\ C26_Effect(r, a)
                      = C26_CancelLocal(auctions[a], EntriesOf(bids, a), t)

\* Auction 1 has been finalized with a winner while auction 2, not
\* settled, has a leader and holds escrow.
C26_Witness ==
    /\ last.op = "finalize" /\ last.ret = "true"
    /\ DOMAIN auctions = {1, 2}
    /\ FinalOf(1) # {} /\ LastEvent(events)[2] = 1
    /\ ~auctions[2].settled
    /\ auctions[2].best_bid > 0
    /\ get_bid(bids, 2, auctions[2].best_bidder) = auctions[2].best_bid
    /\ get_bid(bids, 2, auctions[1].best_bidder) > 0

(***************************************************************************)
(* C27. start_ts < end_ts for every auction in every state, for every      *)
(* configuration create accepts.  create accepts a negative extend_secs,   *)
(* and each extension then moves end_ts back, down to start_ts and below.  *)
(***************************************************************************)
C27_StartBeforeEnd ==
    \A a \in DOMAIN auctions : auctions[a].start_ts < auctions[a].end_ts

(***************************************************************************)
(* C28. best_bid is 0, with best_bidder still the seller and no bid        *)
(* accepted, or at least the reserve.  Hence a finalize that is not        *)
(* rejected takes the reserve-not-met branch (AucFailed appended, False    *)
(* returned, no Payment and no AucFinal) exactly when no bid was ever      *)
(* accepted on the auction.                                                *)
(***************************************************************************)
C28_Kinds(r) == {r.events[i][1] : i \in Len(events) + 1 .. Len(r.events)}

\* C28: best_bid is 0 (no bid accepted, best_bidder the seller) or >= reserve,
\* and finalize fails exactly when no bid was accepted on the auction.
C28_ReserveMet ==
    \A a \in DOMAIN auctions :
        /\ auctions[a].best_bid = 0 \/ auctions[a].best_bid >= auctions[a].reserve
        /\ (auctions[a].best_bid = 0) = (accepted[a] = 0)
        /\ auctions[a].best_bid = 0 => auctions[a].best_bidder = auctions[a].seller
        /\ \A lessor \in Lessors, new_lessee \in Lessees, t \in Times :
             LET r == FinalizeResult(a, lessor, new_lessee, t)
                 failed == "AucFailed" \in C28_Kinds(r)
             IN r.err = "" =>
                  /\ failed = (accepted[a] = 0)
                  /\ failed = (r.ret = "false")
                  /\ failed = ("Payment" \notin C28_Kinds(r))
                  /\ failed = ("AucFinal" \notin C28_Kinds(r))

\* A finalize has just failed on an auction where a bid was tried and
\* rejected below the reserve: escrow was written, no bid was accepted.
C28_Witness ==
    /\ last.op = "finalize" /\ last.err = "" /\ last.ret = "false"
    /\ \E a \in DOMAIN auctions :
         /\ LastEvent(events) = <<"AucFailed", a, auctions[a].reserve>>
         /\ accepted[a] = 0
         /\ auctions[a].best_bid = 0
         /\ \E b \in Bidders : get_bid(bids, a, b) > 0

(***************************************************************************)
(* C29. While an auction with an accepted bid is not settled, best_bid is  *)
(* the escrow of best_bidder and exceeds the escrow of every other bidder  *)
(* of the auction.  The escrow of a rejected bid stays written (line 116   *)
(* runs before the checks of lines 119-122), so another bidder can hold as *)
(* much as the leader.                                                     *)
(***************************************************************************)
C29_LeaderHoldsMost ==
    \A a \in DOMAIN auctions :
        (~auctions[a].settled /\ accepted[a] > 0) =>
            /\ get_bid(bids, a, auctions[a].best_bidder) = auctions[a].best_bid
            /\ \A b \in Bidders \ {auctions[a].best_bidder} :
                   get_bid(bids, a, b) < auctions[a].best_bid

(***************************************************************************)
(* C30. The event log is append-only and ordered per auction.  Every step  *)
(* leaves the log as a prefix of the new log.  Among the events that carry *)
(* an auction's id the first is its AucCreate, at most one is an AucFinal, *)
(* AucFailed or AucCancel, and that one is the last; once it is in the log *)
(* no step appends an event with that id, and a Payment (which carries no  *)
(* id) is appended only together with the AucFinal of an auction that had  *)
(* no terminal event.  Events are attributed by the id they carry: the     *)
(* refund loops label every entry with the id of the call.                 *)
(***************************************************************************)
C30_Terminal == {"AucFinal", "AucFailed", "AucCancel"}

C30_Of(evs, a) == {i \in 1 .. Len(evs) : evs[i][1] # "Payment" /\ evs[i][2] = a}

C30_TerminalOf(evs, a) == {i \in C30_Of(evs, a) : evs[i][1] \in C30_Terminal}

C30_Ordered ==
    \A a \in DOMAIN auctions :
        /\ C30_Of(events, a) # {}
        /\ \A i \in C30_Of(events, a) :
             (events[i][1] = "AucCreate") = (\A j \in C30_Of(events, a) : i <= j)
        /\ Cardinality(C30_TerminalOf(events, a)) <= 1
        /\ \A i \in C30_TerminalOf(events, a) : \A j \in C30_Of(events, a) : j <= i
        /\ auctions[a].settled = (C30_TerminalOf(events, a) # {})

C30_Appends ==
    /\ Len(events) <= Len(events')
    /\ SubSeq(events', 1, Len(events)) = events
    /\ \A a \in DOMAIN auctions :
         C30_TerminalOf(events, a) # {} => C30_Of(events', a) = C30_Of(events, a)
    /\ \A j \in Len(events) + 1 .. Len(events') :
         events'[j][1] = "Payment" =>
            \E a \in DOMAIN auctions :
                /\ C30_TerminalOf(events, a) = {}
                /\ events'[Len(events')] = <<"AucFinal", a, auctions[a].best_bidder, events'[j][4], auctions[a].lease_id>>

\* C30: the log only grows, each auction's events start with its AucCreate
\* and end with at most one terminal event, after which none is appended.
C30_LogWellOrdered == []C30_Ordered /\ [][C30_Appends]_vars

\* Two auctions, the first finalized with a payment and a refund while the
\* second stays open, and an operation on the settled one refused since.
C30_Witness ==
    /\ DOMAIN auctions = {1, 2}
    /\ FinalOf(1) # {} /\ PayoutsOf(1) # {} /\ RefundsOf(1) # {}
    /\ C30_TerminalOf(events, 2) = {}
    /\ last.err \in {"auction-settled", "already-settled"}

====
